---- MODULE Spec2Model ----
(***************************************************************************)
(* Model of distribution/4_dimension_reduction.ipynb: the two pipelines    *)
(* process_heart_disease_data (PCA) and feature_selection_and_split        *)
(* (random-forest feature ranking), the CSV files they read and write and  *)
(* the library calls they are made of (read_csv, SimpleImputer, PCA,       *)
(* RandomForestClassifier, argsort, DataFrame, concat, train_test_split,   *)
(* to_csv).                                                                *)
(***************************************************************************)
EXTENDS Integers, Sequences, FiniteSets, TLC

(***************************************************************************)
(* Bounds of the exploration.                                              *)
(***************************************************************************)
MaxRows == 7          \* rows of the initial input file
MaxCols == 7          \* feature columns of the initial input file
MaxSelCols == 4       \* feature selection is explored up to this many columns
MaxScore == 2         \* importance scores are drawn from 0..MaxScore
MaxCalls == 1         \* pipeline invocations per behaviour
MaxSamples == 1100    \* n_samples of the split-size specification
MaxImpRows == 3       \* matrices of the imputer specification
MaxImpCols == 2
MaxFitRows == 520     \* shapes of the reproducibility specification
MaxFitCols == 60
MaxFits == 2          \* fits per behaviour of the reproducibility specification

(***************************************************************************)
(* Program constants.                                                      *)
(***************************************************************************)
n_components == 6     \* PCA(n_components=6)
TestTenths == 1       \* test_size=0.1, in tenths
SmallProblem == 500   \* PCA svd_solver='auto': max(X.shape) <= 500 -> 'full'

(***************************************************************************)
(* Cells.  A number is the rational a/b in lowest terms (b > 0); NaN is a  *)
(* missing value; a principal-component score is not computed: pc cell     *)
(* (a, b, c) stands for the score of row b on component a, c naming the    *)
(* draw of the random range finder it was computed with (0: exact solver). *)
(***************************************************************************)
Num(a, b) == [t |-> "num", a |-> a, b |-> b, c |-> 0]
Int2Cell(v) == Num(v, 1)
NaN == [t |-> "nan", a |-> 0, b |-> 0, c |-> 0]
Score(i, r, d) == [t |-> "pc", a |-> i, b |-> r, c |-> d]
IsNaN(cell) == cell.t = "nan"

Abs(v) == IF v < 0 THEN -v ELSE v

RECURSIVE GCD(_, _)
GCD(a, b) == IF b = 0 THEN a ELSE GCD(b, a % b)

\* a/b in lowest terms, b > 0
Rat(a, b) == LET g == GCD(Abs(a), b) IN Num(a \div g, b \div g)

RatAdd(p, q) == Rat(p.a * q.b + q.a * p.b, p.b * q.b)

RECURSIVE SumCells(_)
SumCells(s) == IF s = << >> THEN Num(0, 1) ELSE RatAdd(Head(s), SumCells(Tail(s)))

NotNaN(cell) == ~IsNaN(cell)

\* np.nanmean of a column that has at least one value
MeanOf(col) ==
  LET vals == SelectSeq(col, NotNaN)
      s == SumCells(vals)
  IN  Rat(s.a, s.b * Len(vals))

Column(rows, c) == [r \in 1..Len(rows) |-> rows[r][c]]

RECURSIVE SortedSeq(_)
SortedSeq(S) ==
  IF S = {} THEN << >>
  ELSE LET m == CHOOSE x \in S : \A z \in S : x <= z
       IN  <<m>> \o SortedSeq(S \ {m})

Range(s) == {s[i] : i \in DOMAIN s}
Min(a, b) == IF a < b THEN a ELSE b
Max(a, b) == IF a > b THEN a ELSE b

(***************************************************************************)
(* Tables.  A CSV file is a header, data rows and, when every data row has *)
(* one field more than the header, the leading fields that pandas takes as *)
(* the row index.  A DataFrame is column names, row index labels and rows. *)
(***************************************************************************)
NoFile == [exists |-> FALSE, cols |-> << >>, implicit |-> FALSE, idx |-> << >>, data |-> << >>]
Fail == [ok |-> FALSE, v |-> << >>]
Ok(v) == [ok |-> TRUE, v |-> v]

RangeIndex(n) == [i \in 1..n |-> i - 1]
NRows(df) == Len(df.idx)
HasDup(s) == \E i, j \in DOMAIN s : i < j /\ s[i] = s[j]
PosOf(s, x) == CHOOSE i \in DOMAIN s : s[i] = x
NCols(X) == IF X = << >> THEN 0 ELSE Len(X[1])

\* pd.read_csv(input_filename)
read_csv(file) ==
  IF ~file.exists THEN Fail
  ELSE Ok([cols |-> file.cols,
           idx |-> IF file.implicit THEN file.idx ELSE RangeIndex(Len(file.data)),
           data |-> file.data])

\* df.to_csv(path, index=False): the content written
to_csv(df) ==
  [exists |-> TRUE, cols |-> df.cols, implicit |-> FALSE, idx |-> << >>, data |-> df.data]

\* wine_quality['quality']: a Series (index, values); KeyError without the column
GetQuality(df) ==
  IF "quality" \notin Range(df.cols) THEN Fail
  ELSE LET q == PosOf(df.cols, "quality")
       IN  Ok([idx |-> df.idx, vals |-> [r \in 1..NRows(df) |-> df.data[r][q]]])

\* wine_quality.drop(['quality'], axis=1); KeyError without the column
DropQuality(df) ==
  IF "quality" \notin Range(df.cols) THEN Fail
  ELSE LET q == PosOf(df.cols, "quality")
           keep == SelectSeq([i \in 1..Len(df.cols) |-> i], LAMBDA i : i # q)
       IN  Ok([cols |-> [j \in 1..Len(keep) |-> df.cols[keep[j]]],
               idx |-> df.idx,
               data |-> [r \in 1..NRows(df) |->
                          [j \in 1..Len(keep) |-> df.data[r][keep[j]]]]])

(***************************************************************************)
(* SimpleImputer(missing_values=np.nan, strategy='mean').fit_transform:    *)
(* rejects an array without rows or without columns, drops the columns     *)
(* that hold no value at all and fills the other missing cells with the    *)
(* mean of the values of their column.                                     *)
(***************************************************************************)
ObservedColumns(rows, ncols) ==
  {c \in 1..ncols : \E r \in 1..Len(rows) : NotNaN(rows[r][c])}

KeptColumns(rows, ncols) == SortedSeq(ObservedColumns(rows, ncols))

\* (faulty variant: the first value of the column instead of the mean)
FillFirst(col) == Head(SelectSeq(col, NotNaN))

\* strategy='mean'
FillValue(col) == MeanOf(col)

imputer_fit_transform(df) ==
  LET rows == df.data
      ncols == Len(df.cols)
      keep == KeptColumns(rows, ncols)
      fill == [j \in 1..Len(keep) |-> FillValue(Column(rows, keep[j]))]
  IN  IF Len(rows) = 0 \/ ncols = 0 THEN Fail
      ELSE Ok([r \in 1..Len(rows) |->
                [j \in 1..Len(keep) |->
                  IF IsNaN(rows[r][keep[j]]) THEN fill[j] ELSE rows[r][keep[j]]]])

(***************************************************************************)
(* PCA(n_components=6).fit_transform(X).  No random_state is passed, so a  *)
(* fit that takes the randomized solver draws its range finder from        *)
(* numpy's global random stream.  Which solver svd_solver='auto' takes     *)
(* depends on the shape of X and on the library release:                   *)
(*   "small_first" (before 1.5): 'full' when max(shape) <= 500, else       *)
(*       'randomized' when 1 <= n_components < 0.8 * min(shape), else      *)
(*       'full';                                                           *)
(*   "tall_first" (from 1.5): 'covariance_eigh' when n_features <= 1000    *)
(*       and n_samples >= 10 * n_features, else as above.                  *)
(* The fit fails unless n_components <= min(n_samples, n_features).        *)
(***************************************************************************)
TallFeatures == 1000
TallRatio == 10
Policies == {"small_first", "tall_first"}

AutoSolver(policy, n, k) ==
  IF policy = "tall_first" /\ k <= TallFeatures /\ n >= TallRatio * k
    THEN "covariance_eigh"
  ELSE IF Max(n, k) <= SmallProblem THEN "full"
  ELSE IF 1 <= n_components /\ 10 * n_components < 8 * Min(n, k) THEN "randomized"
  ELSE "full"

\* The results a fit can produce: an exact solver has one (c = 0); the
\* randomized solver's result depends on the draw (c = 1 or 2: two results
\* that the stream can lead to, not computed here).
pca_fit(policy, n, k) ==
  IF Min(n, k) < n_components THEN {[ok |-> FALSE, solver |-> "none", c |-> 0]}
  ELSE IF AutoSolver(policy, n, k) = "randomized"
    THEN {[ok |-> TRUE, solver |-> "randomized", c |-> d] : d \in 1..2}
  ELSE {[ok |-> TRUE, solver |-> AutoSolver(policy, n, k), c |-> 0]}

\* The scores: one row per row of X, n_components columns
pca_transform(X, c) ==
  [r \in 1..Len(X) |-> [i \in 1..n_components |-> Score(i, r, c)]]

\* (faulty variant: f'PC{i}')
PCNamesFromZero == [i \in 1..6 |-> "PC" \o ToString(i - 1)]

\* [f'PC{i+1}' for i in range(6)]
PCNames == [i \in 1..6 |-> "PC" \o ToString(i)]

\* [f'Feature_{i+1}' for i in range(num_features)]
FeatureNames(num_features) == [i \in 1..num_features |-> "Feature_" \o ToString(i)]

(***************************************************************************)
(* RandomForestClassifier(n_estimators, random_state=42).fit(X, y).        *)
(* The fit is rejected for n_estimators < 1, for an X without columns and  *)
(* for labels that are missing or not integers.  The importances are not   *)
(* computed: any scores in 0..MaxScore, except that a feature that is      *)
(* constant over the rows is never split on (score 0) and that a single    *)
(* class leaves every tree a leaf (all scores 0).                          *)
(***************************************************************************)
IsClassLabel(cell) == cell.t = "num" /\ cell.b = 1

forest_fit_ok(X, yvals, n_estimators_num) ==
  /\ n_estimators_num >= 1
  /\ Len(X) >= 1
  /\ NCols(X) >= 1
  /\ \A r \in DOMAIN yvals : IsClassLabel(yvals[r])

ConstantColumn(X, c) == \A r \in DOMAIN X : X[r][c] = X[1][c]

feature_importances(X, yvals) ==
  {f \in [1..NCols(X) -> 0..MaxScore] :
     /\ \A c \in 1..NCols(X) : ConstantColumn(X, c) => f[c] = 0
     /\ Cardinality(Range(yvals)) = 1 => \A c \in 1..NCols(X) : f[c] = 0}

IndexOrders(k) ==
  {p \in [1..k -> 1..k] : \A i, j \in 1..k : i # j => p[i] # p[j]}

\* np.argsort(importances): ascending; the order of equal scores is the sort's
argsort(importances) ==
  {p \in IndexOrders(Len(importances)) :
     \A i \in 1..(Len(importances) - 1) : importances[p[i]] <= importances[p[i + 1]]}

Reverse(s) == [i \in 1..Len(s) |-> s[Len(s) + 1 - i]]

\* (faulty variant: the reversal forgotten)
SortedIndicesAscending(order) == order

\* np.argsort(importances)[::-1]
SortedIndices(order) == Reverse(order)

\* (faulty variant: rounding up)
NumFeaturesCeil(indices) == (Len(indices) + 1) \div 2

\* len(indices) // 2
NumFeatures(indices) == Len(indices) \div 2

\* indices[:num_features]
SelectedIndices(indices) == SubSeq(indices, 1, NumFeatures(indices))

\* X[:, selected_indices]
TakeColumns(X, selected_indices) ==
  [r \in 1..Len(X) |-> [j \in 1..Len(selected_indices) |-> X[r][selected_indices[j]]]]

(***************************************************************************)
(* DataFrame construction and pd.concat([a, b], axis=1).                   *)
(***************************************************************************)
\* pd.DataFrame(array, columns=names): a fresh RangeIndex
DataFrame(X, names) == [cols |-> names, idx |-> RangeIndex(Len(X)), data |-> X]

\* pd.DataFrame(y, columns=['quality']): keeps the index of the Series
LabelFrame(y) ==
  [cols |-> <<"quality">>, idx |-> y.idx, data |-> [r \in 1..Len(y.vals) |-> <<y.vals[r]>>]]

\* .reset_index(drop=True)
reset_index(df) == [df EXCEPT !.idx = RangeIndex(NRows(df))]

NaNRow(n) == [j \in 1..n |-> NaN]
RowAt(df, label) ==
  IF label \in Range(df.idx) THEN df.data[PosOf(df.idx, label)] ELSE NaNRow(Len(df.cols))

\* Rows are paired by index label.  Equal indexes: row by row.  Otherwise the
\* union of the labels (those of a, then the new ones of b), a side without
\* the label giving NaN; duplicate labels cannot be reindexed.
concat(a, b) ==
  IF a.idx = b.idx
    THEN Ok([cols |-> a.cols \o b.cols, idx |-> a.idx,
             data |-> [r \in 1..NRows(a) |-> a.data[r] \o b.data[r]]])
  ELSE IF HasDup(a.idx) \/ HasDup(b.idx) THEN Fail
  ELSE LET labels == a.idx \o SelectSeq(b.idx, LAMBDA l : l \notin Range(a.idx))
       IN  Ok([cols |-> a.cols \o b.cols, idx |-> labels,
               data |-> [i \in 1..Len(labels) |-> RowAt(a, labels[i]) \o RowAt(b, labels[i])]])

(***************************************************************************)
(* train_test_split(X, y, test_size=0.1, random_state=42).                 *)
(* n_test = ceil(0.1 * n_samples), n_train = n_samples - n_test; the split *)
(* is refused when n_train = 0.  (0.1 * n is a double product: for n a     *)
(* multiple of 10 it rounds to n/10 exactly, otherwise it is at least      *)
(* 0.1 away from an integer, so its ceiling is that of the exact n/10.)    *)
(* The rows are those of RandomState(42).permutation(n_samples): the first *)
(* n_test go to the test side, the rest to the train side; both tables are *)
(* indexed by the same positions.                                          *)
(***************************************************************************)
\* (faulty variant: floor instead of ceil)
NTestFloor(n_samples) == (TestTenths * n_samples) \div 10

NTest(n_samples) == (TestTenths * n_samples + 9) \div 10
NTrain(n_samples) == n_samples - NTest(n_samples)
SplitOk(n_samples) == NTrain(n_samples) >= 1

\* RandomState(42).permutation(n) (MT19937 seeded with 42, Fisher-Yates from
\* the last position with masked rejection sampling), 0-based as numpy gives it
Permutation42(n) ==
  CASE n = 0 -> << >>
    [] n = 1 -> <<0>>
    [] n = 2 -> <<1, 0>>
    [] n = 3 -> <<0, 1, 2>>
    [] n = 4 -> <<1, 3, 0, 2>>
    [] n = 5 -> <<1, 4, 2, 0, 3>>
    [] n = 6 -> <<0, 1, 5, 2, 4, 3>>
    [] n = 7 -> <<0, 1, 5, 2, 4, 3, 6>>
    [] n = 8 -> <<1, 5, 0, 7, 2, 4, 3, 6>>
    [] n = 9 -> <<7, 1, 5, 0, 8, 2, 4, 3, 6>>
    [] n = 10 -> <<8, 1, 5, 0, 7, 2, 9, 4, 3, 6>>
    [] n = 11 -> <<5, 0, 9, 10, 2, 1, 8, 4, 7, 3, 6>>
    [] n = 12 -> <<10, 9, 0, 8, 5, 2, 1, 11, 4, 7, 3, 6>>

\* permutation[:n_test]
TestIndices(n) == SubSeq(Permutation42(n), 1, NTest(n))
\* (faulty variant: the train side starts one position early)
TrainIndicesOverlap(n) == SubSeq(Permutation42(n), NTest(n), NTest(n) + NTrain(n))
\* permutation[n_test:(n_test + n_train)]
TrainIndices(n) == SubSeq(Permutation42(n), NTest(n) + 1, NTest(n) + NTrain(n))

\* _safe_indexing(df, indices): df.iloc[indices]
iloc(df, indices) ==
  [cols |-> df.cols,
   idx |-> [i \in 1..Len(indices) |-> df.idx[indices[i] + 1]],
   data |-> [i \in 1..Len(indices) |-> df.data[indices[i] + 1]]]

train_test_split(Xdf, ydf) ==
  IF ~SplitOk(NRows(Xdf)) THEN Fail
  ELSE Ok([X_train |-> iloc(Xdf, TrainIndices(NRows(Xdf))),
           X_test |-> iloc(Xdf, TestIndices(NRows(Xdf))),
           y_train |-> iloc(ydf, TrainIndices(NRows(Xdf))),
           y_test |-> iloc(ydf, TestIndices(NRows(Xdf)))])

(***************************************************************************)
(* State.                                                                  *)
(*   fs          the files: path -> content (NoFile when absent)           *)
(*   pc          where the running invocation stands ("idle": none runs)   *)
(*   args        the arguments of the running invocation                   *)
(*   loc         its local variables, under the names the notebook uses    *)
(*   fs0         the files as they were when the invocation was called     *)
(*   written     the paths the invocation has written, in order            *)
(*   failed_at   the step whose exception ended the invocation             *)
(*   calls       invocations made so far                                   *)
(*   np_random   draws taken from numpy's global random stream             *)
(*   svd_policy  the solver policy of the installed library                *)
(*   probe       the input and result of a function checked on its own     *)
(***************************************************************************)
VARIABLES fs, pc, args, loc, fs0, written, failed_at, calls, np_random, svd_policy, probe

vars == <<fs, pc, args, loc, fs0, written, failed_at, calls, np_random, svd_policy, probe>>

Prefixes == {"in", "out"}
FullPath(prefix) == prefix \o ".csv"
\* (faulty variant: the test file's name)
TrainPathAsTest(prefix) == prefix \o "_test.csv"
TrainPath(prefix) == prefix \o "_train.csv"
TestPath(prefix) == prefix \o "_test.csv"
Paths == {"in.csv", "in_train.csv", "in_test.csv", "out.csv", "out_train.csv", "out_test.csv"}
InputNames == {"in.csv", "out.csv"}
Estimators == {0, 250}

NoArgs == [fn |-> "none", input_filename |-> "", output_filename_prefix |-> "",
           n_estimators_num |-> 0]
NoLocals == [wine_quality |-> << >>, y |-> << >>, X |-> << >>, X_red |-> << >>,
             importances |-> << >>, indices |-> << >>, X_df |-> << >>,
             y_df |-> << >>, combined_df |-> << >>, split |-> << >>,
             train_df |-> << >>, test_df |-> << >>]
NoProbe == [op |-> "none"]

(***************************************************************************)
(* The input files explored: N rows of k feature columns f1..fk holding    *)
(* r * c in row r, column c, and a quality column holding r, with one      *)
(* deviation at a time.                                                    *)
(***************************************************************************)
Variants == {"clean", "hole", "emptycol", "noquality", "qfirst", "permidx",
             "disjidx", "dupidx", "nanlabel", "oneclass"}

FeatureCell(r, c, variant) ==
  IF variant = "hole" /\ r = 1 /\ c = 1 THEN NaN
  ELSE IF variant = "emptycol" /\ c = 1 THEN NaN
  ELSE Int2Cell(r * c)

LabelCell(r, variant) ==
  IF variant = "nanlabel" /\ r = 1 THEN NaN
  ELSE IF variant = "oneclass" THEN Int2Cell(5)
  ELSE Int2Cell(r)

InputFile(N, k, variant) ==
  LET names == [c \in 1..k |-> "f" \o ToString(c)]
      feats(r) == [c \in 1..k |-> FeatureCell(r, c, variant)]
      lab(r) == <<LabelCell(r, variant)>>
  IN  [exists |-> TRUE,
       cols |-> IF variant = "noquality" THEN names
                ELSE IF variant = "qfirst" THEN <<"quality">> \o names
                ELSE names \o <<"quality">>,
       implicit |-> variant \in {"permidx", "disjidx", "dupidx"},
       idx |-> IF variant = "permidx" THEN [r \in 1..N |-> N - r]
               ELSE IF variant = "disjidx" THEN [r \in 1..N |-> 100 + r]
               ELSE IF variant = "dupidx" THEN [r \in 1..N |-> 0]
               ELSE << >>,
       data |-> [r \in 1..N |->
                  IF variant = "noquality" THEN feats(r)
                  ELSE IF variant = "qfirst" THEN lab(r) \o feats(r)
                  ELSE feats(r) \o lab(r)]]

InputFiles ==
  {InputFile(N, k, v) : N \in 0..MaxRows, k \in 0..MaxCols, v \in Variants}

\* What an earlier invocation may have left at an output path
StaleFile == InputFile(2, 2, "clean")

FeatureCount(file) == Cardinality({c \in DOMAIN file.cols : file.cols[c] # "quality"})

Init ==
  /\ \E f \in InputFiles \cup {NoFile}, stale \in BOOLEAN :
       fs = [q \in Paths |-> IF q = "in.csv" THEN f
                             ELSE IF stale THEN StaleFile ELSE NoFile]
  /\ pc = "idle"
  /\ args = NoArgs
  /\ loc = NoLocals
  /\ fs0 = [q \in Paths |-> NoFile]
  /\ written = << >>
  /\ failed_at = "none"
  /\ calls = 0
  /\ np_random = 0
  /\ svd_policy \in Policies
  /\ probe = NoProbe

\* (faulty variant: the step's failure starts the invocation over)
RaiseRetry(step) ==
  /\ pc' = "called"
  /\ failed_at' = step

\* An exception leaves the function
Raise(step) ==
  /\ pc' = "failed"
  /\ failed_at' = step

\* A call of process_heart_disease_data or feature_selection_and_split
Call(fn, input, prefix, n_est) ==
  /\ pc = "idle"
  /\ calls < MaxCalls
  /\ fn = "feature_selection_and_split" => FeatureCount(fs[input]) <= MaxSelCols
  /\ pc' = "called"
  /\ args' = [fn |-> fn, input_filename |-> input, output_filename_prefix |-> prefix,
              n_estimators_num |-> n_est]
  /\ loc' = NoLocals
  /\ fs0' = fs
  /\ written' = << >>
  /\ failed_at' = "none"
  /\ calls' = calls + 1
  /\ UNCHANGED <<fs, np_random, svd_policy, probe>>

\* wine_quality = pd.read_csv(input_filename)
Load ==
  /\ pc = "called"
  /\ LET r == read_csv(fs[args.input_filename])
     IN  IF r.ok
           THEN /\ loc' = [loc EXCEPT !.wine_quality = r.v]
                /\ pc' = "loaded"
                /\ UNCHANGED failed_at
           ELSE /\ Raise("read_csv")
                /\ UNCHANGED loc
  /\ UNCHANGED <<fs, args, fs0, written, calls, np_random, svd_policy, probe>>

\* y = wine_quality['quality'];
\* X = imputer.fit_transform(wine_quality.drop(['quality'], axis=1))
Impute ==
  /\ pc = "loaded"
  /\ LET q == GetQuality(loc.wine_quality)
         d == DropQuality(loc.wine_quality)
         x == imputer_fit_transform(d.v)
     IN  IF ~q.ok
           THEN Raise("quality") /\ UNCHANGED loc
         ELSE IF ~x.ok
           THEN Raise("imputer") /\ UNCHANGED loc
         ELSE /\ loc' = [loc EXCEPT !.y = q.v, !.X = x.v]
              /\ pc' = "imputed"
              /\ UNCHANGED failed_at
  /\ UNCHANGED <<fs, args, fs0, written, calls, np_random, svd_policy, probe>>

\* pca = PCA(n_components=6); X_pca = pca.fit_transform(X)
\* (loc.X_red is the notebook's X_pca here, X_selected in the other pipeline)
PcaReduce ==
  /\ pc = "imputed"
  /\ args.fn = "process_heart_disease_data"
  /\ \E out \in pca_fit(svd_policy, Len(loc.X), NCols(loc.X)) :
       /\ IF out.ok
            THEN /\ loc' = [loc EXCEPT !.X_red = pca_transform(loc.X, out.c)]
                 /\ pc' = "reduced"
                 /\ UNCHANGED failed_at
            ELSE /\ Raise("pca")
                 /\ UNCHANGED loc
       /\ np_random' = IF out.solver = "randomized" THEN np_random + 1 ELSE np_random
  /\ UNCHANGED <<fs, args, fs0, written, calls, svd_policy, probe>>

\* rf.fit(X, y); importances = rf.feature_importances_;
\* indices = np.argsort(importances)[::-1]; num_features = len(indices) // 2;
\* selected_indices = indices[:num_features]; X_selected = X[:, selected_indices]
ForestReduce ==
  /\ pc = "imputed"
  /\ args.fn = "feature_selection_and_split"
  /\ IF ~forest_fit_ok(loc.X, loc.y.vals, args.n_estimators_num)
       THEN Raise("rf.fit") /\ UNCHANGED loc
       ELSE \E importances \in feature_importances(loc.X, loc.y.vals) :
            \E order \in argsort(importances) :
              /\ loc' = [loc EXCEPT
                     !.importances = importances,
                     !.indices = SortedIndices(order),
                     !.X_red = TakeColumns(loc.X, SelectedIndices(SortedIndices(order)))]
              /\ pc' = "reduced"
              /\ UNCHANGED failed_at
  /\ UNCHANGED <<fs, args, fs0, written, calls, np_random, svd_policy, probe>>

\* X_pca_df = pd.DataFrame(X_pca, columns=[PC1..PC6])
X_pca_df(X_pca) == DataFrame(X_pca, PCNames)

\* y_df = pd.DataFrame(y, columns=['quality']).reset_index(drop=True)
y_df_pca(y) == reset_index(LabelFrame(y))

\* X_selected_df = pd.DataFrame(X_selected, columns=[Feature_1..Feature_num_features])
X_selected_df(X_selected, indices) ==
  DataFrame(X_selected, FeatureNames(NumFeatures(indices)))

\* y_df = pd.DataFrame(y, columns=['quality'])
y_df_selected(y) == LabelFrame(y)

\* The two frames and combined_df = pd.concat([X_df, y_df], axis=1).
\* importances and indices are not read after this step and are dropped here.
Combine ==
  /\ pc = "reduced"
  /\ LET xdf == IF args.fn = "process_heart_disease_data"
                  THEN X_pca_df(loc.X_red)
                  ELSE X_selected_df(loc.X_red, loc.indices)
         ydf == IF args.fn = "process_heart_disease_data"
                  THEN y_df_pca(loc.y)
                  ELSE y_df_selected(loc.y)
         c == concat(xdf, ydf)
     IN  IF c.ok
           THEN /\ loc' = [loc EXCEPT !.X_df = xdf, !.y_df = ydf, !.combined_df = c.v,
                                       !.importances = << >>, !.indices = << >>]
                /\ pc' = "combined"
                /\ UNCHANGED failed_at
           ELSE /\ loc' = [loc EXCEPT !.X_df = xdf, !.y_df = ydf,
                                       !.importances = << >>, !.indices = << >>]
                /\ Raise("concat")
  /\ UNCHANGED <<fs, args, fs0, written, calls, np_random, svd_policy, probe>>

\* One to_csv: the path gets the new content
WriteTo(path, df) ==
  /\ fs' = [fs EXCEPT ![path] = to_csv(df)]
  /\ written' = Append(written, path)

\* combined_df.to_csv(f'{output_filename_prefix}.csv', index=False)
WriteFull ==
  /\ pc = "combined"
  /\ WriteTo(FullPath(args.output_filename_prefix), loc.combined_df)
  /\ pc' = "full_written"
  /\ UNCHANGED <<args, loc, fs0, failed_at, calls, np_random, svd_policy, probe>>

\* X_train, X_test, y_train, y_test = train_test_split(X_df, y_df, test_size=0.1, random_state=42)
Split ==
  /\ pc = "full_written"
  /\ LET r == train_test_split(loc.X_df, loc.y_df)
     IN  IF r.ok
           THEN /\ loc' = [loc EXCEPT !.split = r.v]
                /\ pc' = "split"
                /\ UNCHANGED failed_at
           ELSE /\ Raise("train_test_split")
                /\ UNCHANGED loc
  /\ UNCHANGED <<fs, args, fs0, written, calls, np_random, svd_policy, probe>>

\* train_df = pd.concat([X_train, y_train], axis=1); test_df = pd.concat([X_test, y_test], axis=1)
CombineSplit ==
  /\ pc = "split"
  /\ LET tr == concat(loc.split.X_train, loc.split.y_train)
         te == concat(loc.split.X_test, loc.split.y_test)
     IN  IF tr.ok /\ te.ok
           THEN /\ loc' = [loc EXCEPT !.train_df = tr.v, !.test_df = te.v]
                /\ pc' = "split_combined"
                /\ UNCHANGED failed_at
           ELSE /\ Raise("concat_split")
                /\ UNCHANGED loc
  /\ UNCHANGED <<fs, args, fs0, written, calls, np_random, svd_policy, probe>>

\* train_df.to_csv(f'{output_filename_prefix}_train.csv', index=False)
WriteTrain ==
  /\ pc = "split_combined"
  /\ WriteTo(TrainPath(args.output_filename_prefix), loc.train_df)
  /\ pc' = "train_written"
  /\ UNCHANGED <<args, loc, fs0, failed_at, calls, np_random, svd_policy, probe>>

\* test_df.to_csv(f'{output_filename_prefix}_test.csv', index=False)
WriteTest ==
  /\ pc = "train_written"
  /\ WriteTo(TestPath(args.output_filename_prefix), loc.test_df)
  /\ pc' = "test_written"
  /\ UNCHANGED <<args, loc, fs0, failed_at, calls, np_random, svd_policy, probe>>

\* A to_csv that cannot open its path raises and leaves the file as it was
WriteError ==
  /\ pc \in {"combined", "split_combined", "train_written"}
  /\ Raise(IF pc = "combined" THEN "to_csv"
           ELSE IF pc = "split_combined" THEN "to_csv_train" ELSE "to_csv_test")
  /\ UNCHANGED <<fs, args, loc, fs0, written, calls, np_random, svd_policy, probe>>

\* return X_df, y_df, X_train, X_test, y_train, y_test
Return ==
  /\ pc = "test_written"
  /\ pc' = "returned"
  /\ UNCHANGED <<fs, args, loc, fs0, written, failed_at, calls, np_random, svd_policy, probe>>

\* The caller goes on after the return or the exception
Finish ==
  /\ pc \in {"returned", "failed"}
  /\ pc' = "idle"
  /\ args' = NoArgs
  /\ loc' = NoLocals
  /\ fs0' = [q \in Paths |-> NoFile]
  /\ written' = << >>
  /\ failed_at' = "none"
  /\ UNCHANGED <<fs, calls, np_random, svd_policy, probe>>

Next ==
  \/ \E input \in InputNames, prefix \in Prefixes :
       Call("process_heart_disease_data", input, prefix, 0)
  \/ \E input \in InputNames, prefix \in Prefixes, n_est \in Estimators :
       Call("feature_selection_and_split", input, prefix, n_est)
  \/ Load
  \/ Impute
  \/ PcaReduce
  \/ ForestReduce
  \/ Combine
  \/ WriteFull
  \/ Split
  \/ CombineSplit
  \/ WriteTrain
  \/ WriteTest
  \/ WriteError
  \/ Return
  \/ Finish

Spec == Init /\ [][Next]_vars

(***************************************************************************)
(* Specifications of single functions.  The pipeline is at rest in them.   *)
(***************************************************************************)
AtRest ==
  /\ fs = [q \in Paths |-> NoFile]
  /\ pc = "idle"
  /\ args = NoArgs
  /\ loc = NoLocals
  /\ fs0 = [q \in Paths |-> NoFile]
  /\ written = << >>
  /\ failed_at = "none"
  /\ calls = 0
  /\ np_random = 0

StaysAtRest == UNCHANGED <<fs, pc, args, loc, fs0, written, failed_at, calls>>

(***************************************************************************)
(* The sizes train_test_split(test_size=0.1) gives the two sides           *)
(* (_validate_shuffle_split), for n_samples up to MaxSamples.              *)
(***************************************************************************)
InitSizes ==
  /\ AtRest
  /\ svd_policy = "small_first"
  /\ \E n \in 0..MaxSamples :
       probe = [op |-> "sizes", n_samples |-> n, done |-> FALSE, ok |-> FALSE,
                n_test |-> 0, n_train |-> 0]

SplitSizes ==
  /\ ~probe.done
  /\ probe' = [probe EXCEPT !.done = TRUE,
                            !.ok = SplitOk(probe.n_samples),
                            !.n_test = NTest(probe.n_samples),
                            !.n_train = NTrain(probe.n_samples)]
  /\ StaysAtRest
  /\ UNCHANGED <<np_random, svd_policy>>

SpecSizes == InitSizes /\ [][SplitSizes]_vars

(***************************************************************************)
(* The imputation step of both pipelines on every table of up to           *)
(* MaxImpRows rows and MaxImpCols feature columns with cells NaN, 1 or 2:  *)
(* X = imputer.fit_transform(wine_quality.drop(['quality'], axis=1)).      *)
(***************************************************************************)
ImputeCells == {NaN, Int2Cell(1), Int2Cell(2)}

ImputeTable(N, k, feats, qfirst) ==
  LET names == [c \in 1..k |-> "f" \o ToString(c)]
  IN  [cols |-> IF qfirst THEN <<"quality">> \o names ELSE names \o <<"quality">>,
       idx |-> RangeIndex(N),
       data |-> [r \in 1..N |-> IF qfirst THEN <<Int2Cell(r)>> \o feats[r]
                                ELSE feats[r] \o <<Int2Cell(r)>>]]

InitImpute ==
  /\ AtRest
  /\ svd_policy = "small_first"
  /\ \E N \in 0..MaxImpRows, k \in 0..MaxImpCols, qfirst \in BOOLEAN :
     \E feats \in [1..N -> [1..k -> ImputeCells]] :
       probe = [op |-> "impute", wine_quality |-> ImputeTable(N, k, feats, qfirst),
                raw |-> feats, done |-> FALSE, ok |-> FALSE, X |-> << >>]

ImputeStep ==
  /\ ~probe.done
  /\ LET x == imputer_fit_transform(DropQuality(probe.wine_quality).v)
     IN  probe' = [probe EXCEPT !.done = TRUE, !.ok = x.ok, !.X = x.v]
  /\ StaysAtRest
  /\ UNCHANGED <<np_random, svd_policy>>

SpecImpute == InitImpute /\ [][ImputeStep]_vars

(***************************************************************************)
(* Repeated runs of one pipeline on one unchanged input whose imputed      *)
(* matrix has n rows and k columns, reduced to what decides the numbers    *)
(* written: the result of the fit.  The forest is seeded (random_state=42) *)
(* and has one result; the PCA is not.                                     *)
(***************************************************************************)
forest_fit(n, k) == {[ok |-> n >= 1 /\ k >= 1, solver |-> "forest", c |-> 0]}

FitResults(fn, policy, n, k) ==
  IF fn = "process_heart_disease_data" THEN pca_fit(policy, n, k) ELSE forest_fit(n, k)

InitRuns ==
  /\ AtRest
  /\ svd_policy \in Policies
  /\ \E n \in 0..MaxFitRows, k \in 0..MaxFitCols,
        fn \in {"process_heart_disease_data", "feature_selection_and_split"} :
       probe = [op |-> "runs", fn |-> fn, n |-> n, k |-> k, outs |-> << >>]

Rerun ==
  /\ Len(probe.outs) < MaxFits
  /\ \E out \in FitResults(probe.fn, svd_policy, probe.n, probe.k) :
       /\ probe' = [probe EXCEPT !.outs = Append(probe.outs, out)]
       /\ np_random' = IF out.solver = "randomized" THEN np_random + 1 ELSE np_random
  /\ StaysAtRest
  /\ UNCHANGED svd_policy

SpecRuns == InitRuns /\ [][Rerun]_vars

(***************************************************************************)
(* Properties.                                                             *)
(***************************************************************************)
IsPca == args.fn = "process_heart_disease_data"
IsSelection == args.fn = "feature_selection_and_split"
InputAtCall == fs0[args.input_filename]
InputRows == Len(InputAtCall.data)
FullFile == fs[args.output_filename_prefix \o ".csv"]
TrainFile == fs[args.output_filename_prefix \o "_train.csv"]
TestFile == fs[args.output_filename_prefix \o "_test.csv"]

\* C1: whenever process_heart_disease_data returns, the feature table it
\* returns has exactly the six columns PC1..PC6, in that order, and one row
\* per row of the input file, and the file P.csv it wrote has those six
\* columns followed by quality and the same number of rows.
C1_PcaShape ==
  (pc = "returned" /\ IsPca) =>
    /\ loc.X_df.cols = <<"PC1", "PC2", "PC3", "PC4", "PC5", "PC6">>
    /\ NRows(loc.X_df) = InputRows
    /\ Len(loc.X_df.data) = InputRows
    /\ \A r \in 1..InputRows : Len(loc.X_df.data[r]) = 6
    /\ FullFile.cols = <<"PC1", "PC2", "PC3", "PC4", "PC5", "PC6", "quality">>
    /\ Len(FullFile.data) = InputRows
    /\ \A r \in 1..InputRows : Len(FullFile.data[r]) = 7

\* C1 witness: a PCA run has returned for an input of 7 feature columns
C1_Witness ==
  pc = "returned" /\ IsPca /\ FeatureCount(InputAtCall) = 7 /\ InputRows = 6

\* The feature columns of a file that hold at least one value
ObservedFeatures(file) ==
  {c \in DOMAIN file.cols :
     file.cols[c] # "quality" /\ \E r \in DOMAIN file.data : NotNaN(file.data[r][c])}

\* C2 as stated: whenever feature_selection_and_split returns, the feature
\* table it returns has floor(k / 2) columns, k the number of feature columns
\* of the input, named Feature_1.., and as many rows as the input.
C2_HalfOfInputColumns ==
  (pc = "returned" /\ IsSelection) =>
    /\ loc.X_df.cols = FeatureNames(FeatureCount(InputAtCall) \div 2)
    /\ NRows(loc.X_df) = InputRows

\* C2 amended: whenever feature_selection_and_split returns, the feature
\* table it returns has floor(k' / 2) columns, k' the number of feature
\* columns of the input that hold at least one value, named Feature_1.. in
\* order, every row has that many cells, and it has as many rows as the input.
C2_HalfOfObservedColumns ==
  (pc = "returned" /\ IsSelection) =>
    LET half == Cardinality(ObservedFeatures(InputAtCall)) \div 2
    IN  /\ Len(loc.X_df.cols) = half
        /\ \A i \in 1..half : loc.X_df.cols[i] = "Feature_" \o ToString(i)
        /\ NRows(loc.X_df) = InputRows
        /\ Len(loc.X_df.data) = InputRows
        /\ \A r \in 1..InputRows : Len(loc.X_df.data[r]) = half

\* C2 witness: a selection has returned for an input with an odd number (3)
\* of observed feature columns, one more column holding no value at all
C2_Witness ==
  /\ pc = "returned" /\ IsSelection
  /\ FeatureCount(InputAtCall) = 4
  /\ Cardinality(ObservedFeatures(InputAtCall)) = 3
  /\ Len(loc.X_df.cols) = 1

\* C3: in both pipelines, once the split is made, the train rows and the test
\* rows are a partition of the rows of the full reduced table: no row is on
\* both sides, every row is on one, each side holds the rows (features and
\* labels) of the positions it names, and the sizes add up to the total.
C3_SplitPartitions ==
  pc \in {"split", "split_combined", "train_written", "test_written", "returned"} =>
    LET tr == loc.split.X_train
        te == loc.split.X_test
        n == NRows(loc.X_df)
    IN  /\ Range(tr.idx) \cap Range(te.idx) = {}
        /\ Range(tr.idx) \cup Range(te.idx) = 0..(n - 1)
        /\ ~HasDup(tr.idx) /\ ~HasDup(te.idx)
        /\ NRows(tr) + NRows(te) = n
        /\ NRows(loc.split.y_train) = NRows(tr) /\ NRows(loc.split.y_test) = NRows(te)
        /\ \A i \in 1..NRows(tr) :
             /\ tr.data[i] = loc.X_df.data[tr.idx[i] + 1]
             /\ loc.split.y_train.data[i] = loc.y_df.data[tr.idx[i] + 1]
        /\ \A i \in 1..NRows(te) :
             /\ te.data[i] = loc.X_df.data[te.idx[i] + 1]
             /\ loc.split.y_test.data[i] = loc.y_df.data[te.idx[i] + 1]

\* C3 witness: a selection has split a table of 5 rows (4 train, 1 test)
C3_Witness ==
  /\ pc = "split" /\ IsSelection
  /\ NRows(loc.X_df) = 5
  /\ NRows(loc.split.X_train) = 4 /\ NRows(loc.split.X_test) = 1

\* round(0.1 * n), Python's rounding (halves to the even neighbour)
RoundTenth(n) ==
  LET q == n \div 10
      r == n % 10
  IN  IF r < 5 THEN q
      ELSE IF r > 5 THEN q + 1
      ELSE IF q % 2 = 0 THEN q ELSE q + 1

\* C4 as stated: for every n_samples the split accepts, the test side has
\* round(0.1 * n_samples) rows and the train side the remaining rows.
C4_RoundedSizes ==
  (probe.op = "sizes" /\ probe.done /\ probe.ok) =>
    /\ probe.n_test = RoundTenth(probe.n_samples)
    /\ probe.n_train = probe.n_samples - RoundTenth(probe.n_samples)

\* C4 amended: the split accepts exactly the inputs of two rows or more; the
\* test side then has ceil(0.1 * n_samples) rows (the least t with
\* 10 * t >= n_samples) and the train side the remaining n_samples - t rows;
\* 1000 rows give 900 train rows and 100 test rows.
C4_CeilingSizes ==
  (probe.op = "sizes" /\ probe.done) =>
    /\ probe.ok <=> probe.n_samples >= 2
    /\ probe.ok =>
         /\ 10 * probe.n_test >= probe.n_samples
         /\ 10 * (probe.n_test - 1) < probe.n_samples
         /\ probe.n_train = probe.n_samples - probe.n_test
         /\ probe.n_samples = 1000 => (probe.n_train = 900 /\ probe.n_test = 100)

\* C4 witness: sizes were computed for 11 rows, which is no multiple of 10
C4_Witness ==
  /\ probe.op = "sizes" /\ probe.done /\ probe.ok
  /\ probe.n_samples = 11 /\ probe.n_test = 2 /\ probe.n_train = 9

\* C5: two runs of one pipeline on the same input and parameters produce the
\* same results (hence the same files and the same returned tables).
C5_Reproducible ==
  probe.op = "runs" =>
    \A i, j \in DOMAIN probe.outs : probe.outs[i] = probe.outs[j]

RawColumns(raw) == IF raw = << >> THEN 0 ELSE Len(raw[1])
RawObserved(raw) ==
  {c \in 1..RawColumns(raw) : \E r \in DOMAIN raw : NotNaN(raw[r][c])}
\* The sum and the number of the values of a raw column (raw cells are integers)
RECURSIVE RawSum(_, _, _)
RawSum(raw, c, r) ==
  IF r = 0 THEN 0
  ELSE RawSum(raw, c, r - 1) + (IF NotNaN(raw[r][c]) THEN raw[r][c].a ELSE 0)
RawCount(raw, c) == Cardinality({r \in DOMAIN raw : NotNaN(raw[r][c])})

\* C6 as stated: the imputed matrix has the shape of the raw feature matrix;
\* a cell that was present keeps its value; in a column with at least one
\* value no cell is missing afterwards, a formerly missing cell holds the
\* mean of the column's values, and the mean of the column is unchanged.
C6_SameShape ==
  (probe.op = "impute" /\ probe.done /\ probe.ok) =>
    LET raw == probe.raw
        X == probe.X
    IN  /\ Len(X) = Len(raw)
        /\ \A r \in DOMAIN raw : Len(X[r]) = RawColumns(raw)
        /\ \A c \in RawObserved(raw) : \A r \in DOMAIN raw :
             /\ NotNaN(X[r][c])
             /\ NotNaN(raw[r][c]) => X[r][c] = raw[r][c]
             /\ IsNaN(raw[r][c]) =>
                  X[r][c].a * RawCount(raw, c) = RawSum(raw, c, Len(raw)) * X[r][c].b

\* C6 amended: the imputed matrix has the rows of the raw feature matrix and
\* one column for each raw column that holds at least one value, in the raw
\* order (so the raw shape exactly when no column is entirely missing; a
\* column without any value is dropped); in these columns a cell that was
\* present keeps its value, no cell is missing, a formerly missing cell holds
\* the mean of the column's values, and the mean of the column over all cells
\* afterwards equals its mean over the present cells before.
C6_ObservedColumnsImputed ==
  (probe.op = "impute" /\ probe.done /\ probe.ok) =>
    LET raw == probe.raw
        X == probe.X
        keep == SortedSeq(RawObserved(raw))
    IN  /\ Len(X) = Len(raw)
        /\ \A r \in DOMAIN raw : Len(X[r]) = Len(keep)
        /\ \A j \in DOMAIN keep : \A r \in DOMAIN raw :
             /\ NotNaN(X[r][j])
             /\ NotNaN(raw[r][keep[j]]) => X[r][j] = raw[r][keep[j]]
             /\ IsNaN(raw[r][keep[j]]) =>
                  /\ X[r][j].b > 0
                  /\ X[r][j].a * RawCount(raw, keep[j])
                       = RawSum(raw, keep[j], Len(raw)) * X[r][j].b
        /\ \A j \in DOMAIN keep :
             LET after == SumCells(Column(X, j))
             IN  after.a * RawCount(raw, keep[j])
                   = RawSum(raw, keep[j], Len(raw)) * after.b * Len(raw)

\* C6 witness: an imputation filled a cell with a mean that is no integer
\* (3/2) while another column, holding no value, was dropped
C6_Witness ==
  /\ probe.op = "impute" /\ probe.done /\ probe.ok
  /\ RawColumns(probe.raw) = 2 /\ Len(probe.X[1]) = 1
  /\ \E r \in DOMAIN probe.raw : \E c \in RawObserved(probe.raw) :
       IsNaN(probe.raw[r][c]) /\ probe.X[r][1] = Num(3, 2)

ThreeFiles ==
  <<args.output_filename_prefix \o ".csv", args.output_filename_prefix \o "_train.csv",
    args.output_filename_prefix \o "_test.csv">>

\* C7: an invocation writes P.csv, then P_train.csv, then P_test.csv and
\* nothing else: at every moment the paths written so far are a prefix of
\* that list and every other file is as it was at the call; once all steps
\* are done the three files hold the full, train and test tables, whatever
\* they held before.
C7_ThreeFilesInOrder ==
  pc # "idle" =>
    /\ \E m \in 0..3 : written = SubSeq(ThreeFiles, 1, m)
    /\ \A q \in Paths \ Range(written) : fs[q] = fs0[q]
    /\ pc \in {"test_written", "returned"} =>
         /\ written = ThreeFiles
         /\ FullFile = to_csv(loc.combined_df)
         /\ TrainFile = to_csv(loc.train_df)
         /\ TestFile = to_csv(loc.test_df)

\* C7 witness: a run with prefix "in" on in.csv has returned: it replaced its
\* own input, and the files of the other prefix, present before, are as they were
C7_Witness ==
  /\ pc = "returned"
  /\ args.output_filename_prefix = "in" /\ args.input_filename = "in.csv"
  /\ fs["in.csv"] # fs0["in.csv"]
  /\ fs0["out.csv"].exists /\ fs0["in_train.csv"].exists
  /\ fs["in_train.csv"] # fs0["in_train.csv"]
  /\ \A q \in {"out.csv", "out_train.csv", "out_test.csv"} : fs[q] = fs0[q]

BeforeFirstWrite == {"read_csv", "quality", "imputer", "pca", "rf.fit", "concat", "to_csv"}
AfterFirstWrite == {"train_test_split", "concat_split", "to_csv_train"}
AfterSecondWrite == {"to_csv_test"}

C8_FilesAtFailure ==
  failed_at # "none" =>
    /\ pc = "failed"
    /\ failed_at \in BeforeFirstWrite =>
         written = << >> /\ fs = fs0
    /\ failed_at \in AfterFirstWrite =>
         /\ written = <<ThreeFiles[1]>>
         /\ fs = [fs0 EXCEPT ![ThreeFiles[1]] = to_csv(loc.combined_df)]
    /\ failed_at \in AfterSecondWrite =>
         /\ written = <<ThreeFiles[1], ThreeFiles[2]>>
         /\ fs = [fs0 EXCEPT ![ThreeFiles[1]] = to_csv(loc.combined_df),
                             ![ThreeFiles[2]] = to_csv(loc.train_df)]
    /\ failed_at \in BeforeFirstWrite \cup AfterFirstWrite \cup AfterSecondWrite

C9_TopHalfByImportance ==
  (pc = "reduced" /\ IsSelection) =>
    LET imp == loc.importances
        ind == loc.indices
        k == NCols(loc.X)
        half == k \div 2
        kept == {ind[i] : i \in 1..half}
    IN  /\ Len(imp) = k /\ Len(ind) = k
        /\ Range(ind) = 1..k
        /\ \A i, j \in 1..k : i < j => imp[ind[i]] >= imp[ind[j]]
        /\ Cardinality(kept) = half
        /\ \A a \in kept : \A d \in (1..k) \ kept : imp[a] >= imp[d]
        /\ Len(loc.X_red) = Len(loc.X)
        /\ \A r \in DOMAIN loc.X :
             /\ Len(loc.X_red[r]) = half
             /\ \A i \in 1..half : loc.X_red[r][i] = loc.X[r][ind[i]]

\* C9 witness: four features with scores 0, 2, 1, 2 were ranked: the two
\* with score 2 are kept, the tie between them broken either way
C9_Witness ==
  /\ pc = "reduced" /\ IsSelection
  /\ loc.importances = <<0, 2, 1, 2>>
  /\ loc.indices = <<4, 2, 3, 1>>
  /\ Len(loc.X) = 3

\* The row of the reduced table and the label of input position p
AlignedRow(p) == loc.X_red[p] \o <<loc.y.vals[p]>>

RowsOf(file, positions) ==
  /\ file.cols # << >> /\ file.cols[Len(file.cols)] = "quality"
  /\ Len(file.data) = Len(positions)
  /\ \A i \in 1..Len(file.data) :
       \E j \in 1..Len(positions) : file.data[i] = AlignedRow(positions[j] + 1)
  /\ \A j \in 1..Len(positions) :
       \E i \in 1..Len(file.data) : file.data[i] = AlignedRow(positions[j] + 1)

\* C10: in both pipelines, what is written keeps each label with its row:
\* every row of P.csv, P_train.csv and P_test.csv is the features derived
\* from one input row followed by the quality of that same input row, each
\* row of the side appearing once (in any order), quality being the last
\* column.
C10_LabelsAligned ==
  pc = "returned" =>
    /\ RowsOf(FullFile, RangeIndex(InputRows))
    /\ RowsOf(TrainFile, TrainIndices(InputRows))
    /\ RowsOf(TestFile, TestIndices(InputRows))

====
